---------------------------- MODULE Spec2Model ----------------------------
(***************************************************************************)
(* A model of deformable_attention_1d.py: the helpers divisible_by,        *)
(* grid_sample_1d and normalize_grid, the continuous positional bias CPB, *)
(* and DeformableAttention1D (its constructor and its forward pass).      *)
(*                                                                         *)
(* Tensors are nested sequences (1-based), indexed in the order of the     *)
(* tensor's axes.  Numbers are exact rationals <<n, d>> with d > 0 in      *)
(* lowest terms, so every float operation of the source is modelled by    *)
(* the exact operation it rounds.  The transcendental functions of the    *)
(* host library, none of which is rational-valued, are replaced by        *)
(* rational functions with the same sign, monotonicity and range (tanh,   *)
(* GELU, log1p), and exp by formal sums of exponentials (ExpSum below).   *)
(***************************************************************************)
EXTENDS Integers, Sequences, FiniteSets, TLC

VARIABLES
    gs,      \* the last module-level call of grid_sample_1d: feats, grid, out
    ng,      \* the last module-level call of normalize_grid: arange, out
    mod,     \* the DeformableAttention1D instance: its attributes
    call,    \* the last call of forward: its arguments, locals and result
    ref      \* the first completed dropout-free forward call: its input and output

vars == <<gs, ng, mod, call, ref>>

---------------------------------------------------------------------------
(* Exact rational arithmetic: what the float operators compute, unrounded. *)

RECURSIVE GCD(_, _)
GCD(a, b) == IF b = 0 THEN a ELSE GCD(b, a % b)

Abs(a) == IF a < 0 THEN -a ELSE a

\* the rational n/d (d # 0) in lowest terms with a positive denominator
Rat(n, d) ==
    LET g == GCD(Abs(n), Abs(d))
        s == IF d < 0 THEN -1 ELSE 1
    IN  <<(s * n) \div g, (s * d) \div g>>

R(n) == <<n, 1>>

\* a + b over the least common denominator, g the GCD of the denominators
RAddOver(a, b, g) ==
    Rat(a[1] * (b[2] \div g) + b[1] * (a[2] \div g), (a[2] \div g) * b[2])

RAdd(a, b) == RAddOver(a, b, GCD(a[2], b[2]))
RSub(a, b) == RAddOver(a, <<-b[1], b[2]>>, GCD(a[2], b[2]))
RMul(a, b) == Rat(a[1] * b[1], a[2] * b[2])
RDiv(a, b) == Rat(a[1] * b[2], a[2] * b[1])
RAbs(a) == <<Abs(a[1]), a[2]>>
RLt(a, b) == a[1] * b[2] < b[1] * a[2]
RLe(a, b) == a[1] * b[2] <= b[1] * a[2]
RFloor(a) == a[1] \div a[2]
RSign(a) == IF a[1] > 0 THEN R(1) ELSE IF a[1] < 0 THEN R(-1) ELSE R(0)

\* the sum of f[i] over the finite index set S
RECURSIVE RSum(_, _)
RSum(f, S) ==
    IF S = {} THEN R(0)
    ELSE LET i == CHOOSE j \in S : TRUE IN RAdd(f[i], RSum(f, S \ {i}))

\* python's max(a, b) on integers
Max(a, b) == IF a >= b THEN a ELSE b

---------------------------------------------------------------------------
(* helper functions *)

\* divisibility tested as "the remainder is not 1" with a remainder that takes
\* the sign of the dividend, as C's % does
divisible_by_truncated(numer, denom) ==
    LET rem == IF numer >= 0 THEN numer % denom ELSE -((-numer) % denom)
    IN  rem # 1

\* divisible_by(numer, denom): python's % takes the sign of the divisor, as
\* TLA+'s % does for a positive divisor
divisible_by(numer, denom) == (numer % denom) = 0

\* an optional argument is <<>> for None and <<v>> for the value v
None == <<>>

exists(val) == val # None

default(val, d) == IF exists(val) THEN val[1] ELSE d

---------------------------------------------------------------------------
(* tensor helpers *)

\* materialises a tensor axis: a sequence whose elements are computed once
Tensor(s) == s \o <<>>

\* F.pad(t, (left, right), value) on the last axis of a vector
Pad(v, left, right, value) ==
    Tensor([i \in 1..(left + Len(v) + right) |->
        IF i <= left \/ i > left + Len(v) THEN value ELSE v[i - left]])

\* F.grid_sample's unnormalisation of a coordinate in [-1, 1] to a pixel
\* index of an axis of the given size, align_corners = False
Unnormalize(coord, size) ==
    RDiv(RSub(RMul(RAdd(coord, R(1)), R(size)), R(1)), R(2))

\* padding_mode = 'border' in place of 'zeros': the index is clamped to the image
PixelClamped(img, H, W, iy, ix) ==
    LET cy == IF iy < 0 THEN 0 ELSE IF iy >= H THEN H - 1 ELSE iy
        cx == IF ix < 0 THEN 0 ELSE IF ix >= W THEN W - 1 ELSE ix
    IN  img[cy + 1][cx + 1]

\* the value of pixel (iy, ix), 0-based, of an H x W image img[y][x]:
\* padding_mode = 'zeros' gives 0 outside the image
PixelOrZero(img, H, W, iy, ix) ==
    IF iy >= 0 /\ iy < H /\ ix >= 0 /\ ix < W THEN img[iy + 1][ix + 1] ELSE R(0)

\* F.grid_sample(mode = 'bilinear', padding_mode = 'zeros', align_corners = False)
\* of one channel img[y][x] (H x W) at the point xy = <<x, y>>: xy[1] runs
\* along the width (last) axis, xy[2] along the height axis
BilinearSample(img, H, W, xy) ==
    LET ix  == Unnormalize(xy[1], W)
        iy  == Unnormalize(xy[2], H)
        ix0 == RFloor(ix)
        iy0 == RFloor(iy)
        wx1 == RSub(ix, R(ix0))
        wx0 == RSub(R(1), wx1)
        wy1 == RSub(iy, R(iy0))
        wy0 == RSub(R(1), wy1)
        nw  == RMul(PixelOrZero(img, H, W, iy0, ix0), RMul(wx0, wy0))
        ne  == RMul(PixelOrZero(img, H, W, iy0, ix0 + 1), RMul(wx1, wy0))
        sw  == RMul(PixelOrZero(img, H, W, iy0 + 1, ix0), RMul(wx0, wy1))
        se  == RMul(PixelOrZero(img, H, W, iy0 + 1, ix0 + 1), RMul(wx1, wy1))
    IN  RAdd(RAdd(nw, ne), RAdd(sw, se))

\* F.grid_sample(feats4, grid4): feats4[r][c][y][x], grid4[r][ho][wo] = <<x, y>>
GridSample2D(feats4, grid4) ==
    Tensor([r \in 1..Len(feats4) |->
        Tensor([c \in 1..Len(feats4[r]) |->
            Tensor([ho \in 1..Len(grid4[r]) |->
                Tensor([wo \in 1..Len(grid4[r][ho]) |->
                    BilinearSample(feats4[r][c], Len(feats4[r][c]),
                                   Len(feats4[r][c][1]), grid4[r][ho][wo])])])])])

\* line 25: F.pad(grid, (0, 1), value = 0.) on the grid's last axis (size 1)
GridPad(g) == Pad(g, 0, 1, R(0))

\* line 23: rearrange(grid, '... -> ... 1 1'), and line 25 on its last axis
GridTo4D(grid) ==
    Tensor([r \in 1..Len(grid) |->
        Tensor([m \in 1..Len(grid[r]) |-> <<GridPad(<<grid[r][m]>>)>>])])

\* line 24: rearrange(feats, '... -> ... 1')
FeatsTo4D(feats) ==
    Tensor([r \in 1..Len(feats) |->
        Tensor([c \in 1..Len(feats[r]) |->
            Tensor([l \in 1..Len(feats[r][c]) |-> <<feats[r][c][l]>>])])])

\* line 28: rearrange(out, '... 1 -> ...')
DropLastAxis(out) ==
    Tensor([r \in 1..Len(out) |->
        Tensor([c \in 1..Len(out[r]) |->
            Tensor([m \in 1..Len(out[r][c]) |-> out[r][c][m][1]])])])

\* grid_sample_1d(feats, grid): feats[r][c][l], grid[r][m]; out[r][c][m]
grid_sample_1d(feats, grid) ==
    DropLastAxis(GridSample2D(FeatsTo4D(feats), GridTo4D(grid)))

\* normalize_grid without the final "- 1.0"
normalize_grid_unshifted(arange) ==
    Tensor([r \in 1..Len(arange) |->
        LET n == Len(arange[r])
        IN  Tensor([i \in 1..n |-> RDiv(RMul(R(2), arange[r][i]), R(Max(n - 1, 1)))])])

\* normalize_grid with n taken from the first axis (the rows) of the tensor
normalize_grid_first_axis(arange) ==
    Tensor([r \in 1..Len(arange) |->
        LET n == Len(arange)
        IN  Tensor([i \in 1..Len(arange[r]) |->
                RSub(RDiv(RMul(R(2), arange[r][i]), R(Max(n - 1, 1))), R(1))])])

\* normalize_grid(arange): arange[r][i], n the size of the last axis
normalize_grid(arange) ==
    Tensor([r \in 1..Len(arange) |->
        LET n == Len(arange[r])
        IN  Tensor([i \in 1..n |->
                RSub(RDiv(RMul(R(2), arange[r][i]), R(Max(n - 1, 1))), R(1))])])

---------------------------------------------------------------------------
(* Module-level calls of the two tensor helpers, on inputs drawn from      *)
(* bounded sets.                                                           *)

\* the longest length axis of a sampled feature tensor or normalised vector
MaxLen == 4

\* positions are multiples of 1/PosDen between -PosMax and PosMax
PosDen == 4
PosMax == 3

Positions == {Rat(k, PosDen) : k \in (-(PosMax * PosDen))..(PosMax * PosDen)}

\* feature rows: one channel whose value at index l (0-based) is a + b*l*l,
\* which no two neighbouring indices share and which is not linear in l
FeatRows == {[l \in 1..n |-> R(a + b * (l - 1) * (l - 1))] :
                n \in 1..MaxLen, a \in {1, 2}, b \in {1, 3}}

NoCall == [status |-> "none"]

\* the arguments of a call of grid_sample_1d: one row, one channel, two
\* positions in any order
SampleArgs ==
    {[status |-> "args", feats |-> << <<row>> >>, grid |-> << <<x1, x2>> >>] :
        row \in FeatRows, x1 \in Positions, x2 \in Positions}

CallGridSample ==
    /\ gs.status = "args"
    /\ gs' = [status |-> "ok", feats |-> gs.feats, grid |-> gs.grid,
              out |-> grid_sample_1d(gs.feats, gs.grid)]
    /\ UNCHANGED <<ng, mod, call, ref>>

\* offsets added to the integer positions of a deformed grid
NormOffsets == {Rat(k, 2) : k \in -2..2}

\* the vectors normalize_grid is called on: torch.arange(n), as a one-row
\* tensor, and the deformed grid arange + offsets, of one or two rows
NormInputs ==
    {<<[i \in 1..n |-> R(i - 1)]>> : n \in 1..MaxLen}
    \cup {<<[i \in 1..n |-> RAdd(R(i - 1), o)]>> : n \in 1..MaxLen, o \in NormOffsets}
    \cup {<<[i \in 1..n |-> RAdd(R(i - 1), o1)], [i \in 1..n |-> RAdd(R(i - 1), o2)]>> :
            n \in 1..MaxLen, o1 \in NormOffsets, o2 \in NormOffsets}

CallNormalizeGrid ==
    /\ ng.status = "args"
    /\ ng' = [status |-> "ok", arange |-> ng.arange, out |-> normalize_grid(ng.arange)]
    /\ UNCHANGED <<gs, mod, call, ref>>

InitSample ==
    /\ gs \in SampleArgs
    /\ ng = NoCall
    /\ mod = [status |-> "none"]
    /\ call = NoCall
    /\ ref = NoCall

NextSample == CallGridSample
SpecSample == InitSample /\ [][NextSample]_vars

InitNorm ==
    /\ gs = NoCall
    /\ ng \in {[status |-> "args", arange |-> a] : a \in NormInputs}
    /\ mod = [status |-> "none"]
    /\ call = NoCall
    /\ ref = NoCall

NextNorm == CallNormalizeGrid
SpecNorm == InitNorm /\ [][NextNorm]_vars

---------------------------------------------------------------------------
(* DeformableAttention1D: configurations, parameters and the constructor.  *)

\* the largest batch of an input
MaxBatch == 2

\* the downsample factors 1..MaxFactor and the offset kernel sizes 1..MaxKernel
MaxFactor == 3
MaxKernel == 4

\* x ** -0.5 for a perfect square x
InvSqrt(x) == CHOOSE r \in {Rat(1, k) : k \in 1..x} : RMul(RMul(r, r), R(x)) = R(1)

\* keyword arguments of the constructor
Configs ==
    [dim : {4}, dim_head : {1, 4}, heads : {1, 2, 4}, dropout : {R(0), Rat(1, 2)},
     downsample_factor : 1..MaxFactor, offset_scale : {1},
     offset_groups : {None, <<1>>, <<2>>}, offset_kernel_size : 1..MaxKernel]

\* the random initialisation of the parameters: one of these seeds
Seeds == {1}

\* a weight in {-1, 0, 1} and a weight in {0, 1}, fixed by the seed and the
\* weight's place
W3(seed, i, j) == R(((seed + i + 2 * j + 1) % 3) - 1)
W2(seed, i, j) == R((seed + i + j) % 2)

\* nn.Linear(n_in, n_out) and nn.Conv1d parameters: weight[o][c], bias[o]
LinearParams(seed, n_in, n_out, has_bias) ==
    [weight |-> Tensor([o \in 1..n_out |-> Tensor([c \in 1..n_in |-> W3(seed, o, c)])]),
     bias   |-> Tensor([o \in 1..n_out |-> IF has_bias THEN W2(seed, o, 0) ELSE R(0)])]

\* CPB.__init__(dim, heads, offset_groups, depth): the layers of self.mlp
CPB_init(seed, dim, heads, offset_groups, depth) ==
    [heads |-> heads,
     offset_groups |-> offset_groups,
     mlp |-> <<LinearParams(seed, 1, dim, TRUE)>>
             \o [l \in 1..(depth - 1) |-> LinearParams(seed + l, dim, dim, TRUE)]
             \o <<[weight |-> Tensor([o \in 1..(heads \div offset_groups) |->
                                 Tensor([c \in 1..dim |-> R(o)])]),
                   bias   |-> Tensor([o \in 1..(heads \div offset_groups) |-> R(o - 1)])]>>]

\* the sub-modules built by lines 114-129, in the order they are built
SubModules == <<"to_offsets", "rel_pos_bias", "dropout", "to_q", "to_kv", "to_out">>

\* the attributes of a module whose construction raised at an assert, with
\* the sub-modules built before it
Rejected(cfg, built) ==
    [status |-> "error", error |-> "AssertionError", cfg |-> cfg, built |-> built]

\* DeformableAttention1D.__init__(**cfg): the attributes of the new module,
\* or the assertion that rejected the configuration
DeformableAttention1D_init(cfg, seed) ==
    IF ~divisible_by(cfg.offset_kernel_size - cfg.downsample_factor, 2)
    THEN Rejected(cfg, <<>>)
    ELSE
    LET offset_groups == default(cfg.offset_groups, cfg.heads) IN
    IF ~divisible_by(cfg.heads, offset_groups)
    THEN Rejected(cfg, <<>>)
    ELSE
    LET inner_dim   == cfg.dim_head * cfg.heads
        offset_dims == inner_dim \div offset_groups
    IN  [status |-> "ready",
         cfg |-> cfg,
         built |-> SubModules,
         training |-> TRUE,
         scale |-> InvSqrt(cfg.dim_head),
         heads |-> cfg.heads,
         offset_groups |-> offset_groups,
         downsample_factor |-> cfg.downsample_factor,
         to_offsets |->
            [conv1 |-> [weight |-> Tensor([c \in 1..offset_dims |->
                                      Tensor([j \in 1..cfg.offset_kernel_size |->
                                                W2(seed, c, j)])]),
                        bias |-> Tensor([c \in 1..offset_dims |-> W2(seed, c, 1)]),
                        in_channels |-> offset_dims,
                        kernel_size |-> cfg.offset_kernel_size,
                        stride |-> cfg.downsample_factor,
                        padding |-> (cfg.offset_kernel_size - cfg.downsample_factor) \div 2],
             conv2 |-> LinearParams(seed, offset_dims, 1, FALSE),
             scale |-> cfg.offset_scale],
         rel_pos_bias |-> CPB_init(seed, cfg.dim \div 4, cfg.heads, offset_groups, 2),
         dropout |-> cfg.dropout,
         to_q |-> LinearParams(seed, cfg.dim, inner_dim, FALSE),
         to_kv |-> LinearParams(seed + 1, cfg.dim, inner_dim * 2, FALSE),
         to_out |-> LinearParams(seed + 2, inner_dim, cfg.dim, TRUE)]

---------------------------------------------------------------------------
(* The layers forward is built from.                                       *)

\* sum over i of a[i] * b[i]
Dot(a, b) == RSum([i \in 1..Len(a) |-> RMul(a[i], b[i])], 1..Len(a))

\* nn.Linear applied to one vector
Linear(layer, v) ==
    Tensor([o \in 1..Len(layer.weight) |-> RAdd(Dot(layer.weight[o], v), layer.bias[o])])

\* the error nn.Linear raises on a vector v, or "" when it accepts it
LinearError(layer, v) ==
    IF Len(v) # Len(layer.weight[1])
    THEN "RuntimeError: mat1 and mat2 shapes cannot be multiplied"
    ELSE ""

\* nn.ReLU
ReLU(x) == IF RLt(x, R(0)) THEN R(0) ELSE x

\* nn.Tanh, by the odd, increasing rational function x / (1 + |x|) with the
\* same range (-1, 1)
Tanh(x) == RDiv(x, RAdd(R(1), RAbs(x)))

\* nn.GELU, x * Phi(x), with Phi by the increasing rational function
\* (1 + x / (1 + |x|)) / 2 with the same range (0, 1)
GELU(x) == RMul(x, RDiv(RAdd(R(1), Tanh(x)), R(2)))

\* log(u + 1) for u >= 0, by its Pade approximant 2u / (u + 2)
Log1p(u) == RDiv(RMul(R(2), u), RAdd(u, R(2)))

\* the error nn.Conv1d raises on an input t[r][c][l], or "" when it accepts it
Conv1dError(conv, t) ==
    IF conv.padding < 0 THEN "RuntimeError: negative padding is not supported"
    ELSE IF Len(t[1]) # conv.in_channels
    THEN "RuntimeError: expected input to have in_channels channels"
    ELSE IF Len(t[1][1]) + 2 * conv.padding < conv.kernel_size
    THEN "RuntimeError: Kernel size can't be greater than actual input size"
    ELSE ""

\* the convolution with a last window that may run past the end of the padded
\* row (a pooling layer's ceil_mode): ceil((padded - kernel) / stride) + 1 windows
DepthwiseConv1dCeil(conv, t) ==
    LET Lin    == Len(t[1][1])
        padded == Lin + 2 * conv.padding
        starts == {st \in 0..padded :
                      st * conv.stride + conv.kernel_size < padded + conv.stride}
        at(row, q) == IF q >= 1 /\ q <= Lin THEN row[q] ELSE R(0)
    IN  Tensor([r \in 1..Len(t) |->
            Tensor([c \in 1..Len(t[r]) |->
                Tensor([o \in 1..Cardinality(starts) |->
                    RAdd(conv.bias[c],
                         RSum([j \in 1..conv.kernel_size |->
                                 RMul(conv.weight[c][j],
                                      at(t[r][c], (o - 1) * conv.stride + j - conv.padding))],
                              1..conv.kernel_size))])])])

\* nn.Conv1d(c, c, kernel_size, groups = c, stride, padding) on t[r][c][l]:
\* one window per start st*stride, 0-based in the zero-padded row, that fits
DepthwiseConv1d(conv, t) ==
    LET Lin    == Len(t[1][1])
        padded == Lin + 2 * conv.padding
        starts == {st \in 0..padded : st * conv.stride + conv.kernel_size <= padded}
        at(row, q) == IF q >= 1 /\ q <= Lin THEN row[q] ELSE R(0)
    IN  Tensor([r \in 1..Len(t) |->
            Tensor([c \in 1..Len(t[r]) |->
                Tensor([o \in 1..Cardinality(starts) |->
                    RAdd(conv.bias[c],
                         RSum([j \in 1..conv.kernel_size |->
                                 RMul(conv.weight[c][j],
                                      at(t[r][c], (o - 1) * conv.stride + j - conv.padding))],
                              1..conv.kernel_size))])])])

\* line 115, Rearrange('b n d -> b d n'): the last two axes of t[r][d][n] swapped
Rearrange_bnd_bdn(t) ==
    Tensor([r \in 1..Len(t) |->
        Tensor([n \in 1..Len(t[r][1]) |->
            Tensor([d \in 1..Len(t[r]) |-> t[r][d][n]])])])

\* lines 117-121 on the output hidden[r][c][o] of the first convolution: GELU,
\* Conv1d(offset_dims, 1, 1, bias = False), 'b 1 n -> b n', Tanh, Scale
OffsetsHead(m, hidden) ==
    Tensor([r \in 1..Len(hidden) |->
        Tensor([o \in 1..Len(hidden[r][1]) |->
            RMul(Tanh(Linear(m.to_offsets.conv2,
                             [c \in 1..Len(hidden[r]) |-> GELU(hidden[r][c][o])])[1]),
                 R(m.to_offsets.scale))])])

\* lines 116-121 on the rearranged input
OffsetsOfSwapped(m, swapped) ==
    IF Conv1dError(m.to_offsets.conv1, swapped) # ""
    THEN [error |-> Conv1dError(m.to_offsets.conv1, swapped), out |-> <<>>]
    ELSE [error |-> "", out |-> OffsetsHead(m, DepthwiseConv1d(m.to_offsets.conv1, swapped))]

\* self.to_offsets(t), lines 114-122, on t[r][d][n]: the error the first
\* convolution raises, or the offsets out[r][o]
to_offsets(m, t) == OffsetsOfSwapped(m, Rearrange_bnd_bdn(t))

\* the layers of CPB.mlp applied to one scalar: ReLU after all but the last
RECURSIVE Mlp(_, _, _)
Mlp(layers, l, v) ==
    IF l > Len(layers) THEN v
    ELSE LET y == Linear(layers[l], v)
         IN  Mlp(layers, l + 1,
                 IF l < Len(layers) THEN Tensor([u \in 1..Len(y) |-> ReLU(y[u])]) ELSE y)

\* line 75: sign(pos) * log(|pos| + 1)
SignedLog(pos) == RMul(RSign(pos), Log1p(RAbs(pos)))

\* line 80 with the group and the per-group head in the other order:
\* '(b g) i j o -> b (o g) i j'
CPB_rearrange_o_major(cpb, bias, b, h) ==
    LET G == cpb.offset_groups
    IN  <<(b - 1) * G + ((h - 1) % G) + 1, ((h - 1) \div G) + 1>>

\* line 80, rearrange(bias, '(b g) i j o -> b (g o) i j', g = offset_groups):
\* the <<row, o>> of bias that batch b, head h (1-based) of the result reads
CPB_rearrange(cpb, bias, b, h) ==
    LET G == cpb.offset_groups
        O == Len(bias[1][1][1])
    IN  <<(b - 1) * G + ((h - 1) \div O) + 1, ((h - 1) % O) + 1>>

\* lines 70-78: the mlp on the signed log of every position difference,
\* bias[r][i][j][o]
CPB_bias(cpb, grid_q, grid_kv) ==
    Tensor([r \in 1..Len(grid_kv) |->
        Tensor([i \in 1..Len(grid_q) |->
            Tensor([j \in 1..Len(grid_kv[r]) |->
                Mlp(cpb.mlp, 1, <<SignedLog(RSub(grid_q[i], grid_kv[r][j]))>>)])])])

\* line 80 applied to bias[r][i][j][o]: result[b][h][i][j]
CPB_grouped(cpb, bias) ==
    Tensor([b \in 1..(Len(bias) \div cpb.offset_groups) |->
        Tensor([h \in 1..cpb.heads |->
            Tensor([i \in 1..Len(bias[1]) |->
                Tensor([j \in 1..Len(bias[1][1]) |->
                    bias[CPB_rearrange(cpb, bias, b, h)[1]][i][j]
                        [CPB_rearrange(cpb, bias, b, h)[2]]])])])])

\* CPB.forward(grid_q, grid_kv): grid_q[i], grid_kv[r][j]; result[b][h][i][j]
CPB_forward(cpb, grid_q, grid_kv) == CPB_grouped(cpb, CPB_bias(cpb, grid_q, grid_kv))

---------------------------------------------------------------------------
(* Softmax, exactly.  A finite sum of c * exp(e), with rational c and e, is *)
(* the set of its terms <<e, c>>, one per exponent, none with c = 0: two    *)
(* such sums are equal as real numbers exactly when these sets are equal,   *)
(* the exponentials of distinct rationals being linearly independent over   *)
(* the rationals.                                                           *)

\* the terms of the sequence ts of <<e, c>>, those of one exponent added up
ExpTerms(ts) ==
    {<<e, RSum([j \in 1..Len(ts) |-> ts[j][2]], {j \in 1..Len(ts) : ts[j][1] = e})>> :
        e \in {ts[j][1] : j \in 1..Len(ts)}}

\* the sum over j of t[j][2] * exp(t[j][1]), for a sequence t of <<e, c>>
ExpSum(t) == {term \in ExpTerms(Tensor(t)) : term[2] # R(0)}

\* sim.amax(dim = -1) of one row
Amax(row) == CHOOSE v \in {row[j] : j \in 1..Len(row)} :
                \A j \in 1..Len(row) : RLe(row[j], v)

\* softmax over the rows of the matrix (dim = -2) instead of over each row
SoftmaxOverQueries(mat) ==
    Tensor([i \in 1..Len(mat) |->
        Tensor([j \in 1..Len(mat[i]) |->
            [num |-> ExpSum(<<<<mat[i][j], R(1)>>>>),
             den |-> ExpSum([k \in 1..Len(mat) |-> <<mat[k][j], R(1)>>])]])])

\* one row of the softmax, given the row's denominator
SoftmaxRow(row, den) ==
    Tensor([j \in 1..Len(row) |-> [num |-> ExpSum(<<<<row[j], R(1)>>>>), den |-> den]])

\* sim.softmax(dim = -1) of the matrix mat[i][j]: entry j of row i is
\* exp(mat[i][j]) / sum over k of exp(mat[i][k]), as numerator and denominator
Softmax(mat) ==
    Tensor([i \in 1..Len(mat) |->
        SoftmaxRow(mat[i], ExpSum([k \in 1..Len(mat[i]) |-> <<mat[i][k], R(1)>>]))])

\* nn.Dropout(p) on one attention weight: unchanged when not training or
\* p = 0; else zeroed when dropped and scaled by 1 / (1 - p) when kept
Dropout(w, p, training, dropped) ==
    IF ~training \/ p = R(0) THEN w
    ELSE IF dropped \/ p = R(1) THEN [w EXCEPT !.num = {}]
    ELSE [w EXCEPT !.num = {<<term[1], RDiv(term[2], RSub(R(1), p))>> : term \in w.num}]

---------------------------------------------------------------------------
(* DeformableAttention1D.forward                                            *)

\* The locals of a call of forward are the fields of a record, assigned in
\* the order of the source; a field not yet assigned is <<>>.
Locals(x, return_vgrid) ==
    [status |-> "ok", x |-> x, return_vgrid |-> return_vgrid,
     q |-> <<>>, grouped_feats |-> <<>>, offsets |-> <<>>, vgrid |-> <<>>,
     vgrid_scaled |-> <<>>, kv_feats |-> <<>>, kv |-> <<>>, qh |-> <<>>,
     kh |-> <<>>, vh |-> <<>>, seq_scaled |-> <<>>, rel_pos_bias |-> <<>>,
     sim_biased |-> <<>>, sim |-> <<>>, softmax |-> <<>>, attn |-> <<>>,
     out |-> <<>>, returned |-> <<>>]

\* what is left of a call that raised
Raised(loc, error) ==
    [status |-> "error", error |-> error, x |-> loc.x, return_vgrid |-> loc.return_vgrid]

\* line 145: q = self.to_q(x), q[b][n][c]
forward_q(m, loc) ==
    [loc EXCEPT !.q = Tensor([bb \in 1..Len(loc.x) |->
                          Tensor([i \in 1..Len(loc.x[bb]) |-> Linear(m.to_q, loc.x[bb][i])])])]

\* line 149: rearrange(q, 'b n (g d) -> (b g) d n', g = self.offset_groups)
Rearrange_grouped(q, G, D) ==
    Tensor([r \in 1..(Len(q) * G) |->
        Tensor([d \in 1..D |->
            Tensor([i \in 1..Len(q[1]) |->
                q[((r - 1) \div G) + 1][i][((r - 1) % G) * D + d]])])])

forward_grouped_feats(m, loc) ==
    [loc EXCEPT !.grouped_feats =
        Rearrange_grouped(loc.q, m.offset_groups, Len(loc.q[1][1]) \div m.offset_groups)]

\* line 150: offsets = self.to_offsets(grouped_feats), or the error it raises
OffsetsOrRaised(loc, off) ==
    IF off.error # "" THEN Raised(loc, off.error) ELSE [loc EXCEPT !.offsets = off.out]

forward_offsets(m, loc) == OffsetsOrRaised(loc, to_offsets(m, loc.grouped_feats))

\* lines 154-155: grid = torch.arange(offsets.shape[-1]); vgrid = grid + offsets
forward_vgrid(loc) ==
    [loc EXCEPT !.vgrid =
        Tensor([r \in 1..Len(loc.offsets) |->
            Tensor([j \in 1..Len(loc.offsets[r]) |-> RAdd(R(j - 1), loc.offsets[r][j])])])]

\* line 156
forward_vgrid_scaled(loc) == [loc EXCEPT !.vgrid_scaled = normalize_grid(loc.vgrid)]

\* line 163: rearrange(kv_feats, '(b g) d n -> b n (g d)', b = b)
Rearrange_ungrouped(sampled, b, G) ==
    Tensor([bb \in 1..b |->
        Tensor([j \in 1..Len(sampled[1][1]) |->
            Tensor([c \in 1..(G * Len(sampled[1])) |->
                sampled[(bb - 1) * G + ((c - 1) \div Len(sampled[1])) + 1]
                       [((c - 1) % Len(sampled[1])) + 1][j]])])])

\* lines 158-163
forward_kv_feats(m, loc) ==
    [loc EXCEPT !.kv_feats =
        Rearrange_ungrouped(grid_sample_1d(loc.grouped_feats, loc.vgrid_scaled),
                            Len(loc.x), m.offset_groups)]

\* line 167: self.to_kv(kv_feats), k the first and v the second half of each
\* row, or the error the layer raises
forward_kv(m, loc) ==
    IF LinearError(m.to_kv, loc.kv_feats[1][1]) # ""
    THEN Raised(loc, LinearError(m.to_kv, loc.kv_feats[1][1]))
    ELSE [loc EXCEPT !.kv =
            Tensor([bb \in 1..Len(loc.kv_feats) |->
                Tensor([j \in 1..Len(loc.kv_feats[bb]) |->
                    Linear(m.to_kv, loc.kv_feats[bb][j])])])]

\* line 175, rearrange(t, 'b n (h d) -> b h n d', h = heads), of the channels
\* first + 1 .. first + heads * dh of t, each multiplied by scale
SplitHeads(t, heads, dh, first, scale) ==
    Tensor([bb \in 1..Len(t) |-> Tensor([h \in 1..heads |->
        Tensor([i \in 1..Len(t[bb]) |-> Tensor([d \in 1..dh |->
            RMul(t[bb][i][first + (h - 1) * dh + d], scale)])])])])

\* lines 171-175; inner is the number of channels of q
HeadsOf(m, loc, inner) ==
    [loc EXCEPT !.qh = SplitHeads(loc.q, m.heads, inner \div m.heads, 0, m.scale),
                !.kh = SplitHeads(loc.kv, m.heads, inner \div m.heads, 0, R(1)),
                !.vh = SplitHeads(loc.kv, m.heads, inner \div m.heads, inner, R(1))]

forward_heads(m, loc) == HeadsOf(m, loc, Len(loc.q[1][1]))

\* lines 183-184
forward_seq_scaled(loc) ==
    [loc EXCEPT !.seq_scaled =
        normalize_grid(<<[i \in 1..Len(loc.x[1]) |-> R(i - 1)]>>)[1]]

\* line 185
forward_rel_pos_bias(m, loc) ==
    [loc EXCEPT !.rel_pos_bias = CPB_forward(m.rel_pos_bias, loc.seq_scaled, loc.vgrid_scaled)]

\* lines 179 and 186: einsum('b h i d, b h j d -> b h i j', q, k) + rel_pos_bias
forward_sim_biased(loc) ==
    [loc EXCEPT !.sim_biased =
        Tensor([bb \in 1..Len(loc.qh) |-> Tensor([h \in 1..Len(loc.qh[bb]) |->
            Tensor([i \in 1..Len(loc.qh[bb][h]) |->
                Tensor([j \in 1..Len(loc.kh[bb][h]) |->
                    RAdd(Dot(loc.qh[bb][h][i], loc.kh[bb][h][j]),
                         loc.rel_pos_bias[bb][h][i][j])])])])])]

\* a row minus the value top
RowMinus(row, top) == Tensor([j \in 1..Len(row) |-> RSub(row[j], top)])

\* line 190: sim - sim.amax(dim = -1, keepdim = True)
forward_sim(loc) ==
    [loc EXCEPT !.sim =
        Tensor([bb \in 1..Len(loc.sim_biased) |->
            Tensor([h \in 1..Len(loc.sim_biased[bb]) |->
                Tensor([i \in 1..Len(loc.sim_biased[bb][h]) |->
                    RowMinus(loc.sim_biased[bb][h][i], Amax(loc.sim_biased[bb][h][i]))])])])]

\* line 194
forward_softmax(loc) ==
    [loc EXCEPT !.softmax =
        Tensor([bb \in 1..Len(loc.sim) |->
            Tensor([h \in 1..Len(loc.sim[bb]) |-> Softmax(loc.sim[bb][h])])])]

\* line 195: the mask of the call zeroes the weights of the key positions in drop
forward_attn(m, loc, drop) ==
    [loc EXCEPT !.attn =
        Tensor([bb \in 1..Len(loc.softmax) |->
            Tensor([h \in 1..Len(loc.softmax[bb]) |->
                Tensor([i \in 1..Len(loc.softmax[bb][h]) |->
                    Tensor([j \in 1..Len(loc.softmax[bb][h][i]) |->
                        Dropout(loc.softmax[bb][h][i][j], m.dropout, m.training,
                                j \in drop)])])])])]

\* the coefficient of exp(sim[j]) in an attention weight: the sum of the
\* coefficients of its numerator, 1 unless dropout changed it
Coef(w) == RSum([t \in w.num |-> t[2]], w.num)

\* the contribution of head h to channel c of the output at one query: the
\* sum over the key positions j of attn[j] * (to_out.weight[c] . v[j]), as the
\* numerator over the row's softmax denominator
HeadOut(m, c, h, dh, sim, attn, v) ==
    [num |-> ExpSum([j \in 1..Len(attn) |->
                <<sim[j],
                  RMul(Coef(attn[j]),
                       RSum([d \in 1..dh |->
                               RMul(m.to_out.weight[c][(h - 1) * dh + d], v[j][d])],
                            1..dh))>>]),
     den |-> attn[1].den]

\* lines 199-201: einsum('b h i j, b h j d -> b h i d', attn, v),
\* rearrange(out, 'b h n d -> b n (h d)') and self.to_out, out[b][n][c]
forward_out(m, loc) ==
    [loc EXCEPT !.out =
        Tensor([bb \in 1..Len(loc.attn) |->
            Tensor([i \in 1..Len(loc.attn[bb][1]) |->
                Tensor([c \in 1..Len(m.to_out.weight) |->
                    [bias |-> m.to_out.bias[c],
                     heads |-> Tensor([h \in 1..Len(loc.attn[bb]) |->
                        HeadOut(m, c, h, Len(loc.vh[bb][h][1]), loc.sim[bb][h][i],
                                loc.attn[bb][h][i], loc.vh[bb][h])])]])])])]

\* lines 203-206
forward_return(loc) ==
    [loc EXCEPT !.returned = IF loc.return_vgrid THEN <<loc.out, loc.vgrid>>
                             ELSE <<loc.out>>]

\* lines 154-167: the deformed grid, the sampled features, the keys and values
forward_sample(m, loc) ==
    IF loc.status = "error" THEN loc
    ELSE forward_kv(m, forward_kv_feats(m, forward_vgrid_scaled(forward_vgrid(loc))))

\* lines 171-190: the query / key similarity
forward_similarity(m, loc) ==
    forward_sim(forward_sim_biased(forward_rel_pos_bias(m,
        forward_seq_scaled(forward_heads(m, loc)))))

\* lines 194-206: attention, aggregation and the returned value
forward_attention(m, loc, drop) ==
    forward_return(forward_out(m, forward_attn(m, forward_softmax(loc), drop)))

\* lines 171-206, after the keys and values: nothing there raises
forward_attend(m, loc, drop) ==
    IF loc.status = "error" THEN loc
    ELSE forward_attention(m, forward_similarity(m, loc), drop)

\* forward(x, return_vgrid) on the module m, x[b][n][c]; drop is the set of
\* key positions whose attention weights the dropout mask of this call zeroes.
\* The result holds the locals of the call and what it returned or raised.
forward(m, x, return_vgrid, drop) ==
    forward_attend(m,
        forward_sample(m, forward_offsets(m, forward_grouped_feats(m,
            forward_q(m, Locals(x, return_vgrid))))),
        drop)

\* the input tensors: x[b][n][c], entries in -1..2 fixed by the place and a seed
XSeeds == {1, 2}

Inputs(dim, batches) ==
    {Tensor([bb \in 1..b |-> Tensor([i \in 1..n |-> Tensor([c \in 1..dim |->
         R(((bb + 2 * i + xs * c) % 4) - 1)])])]) :
       b \in batches, n \in 1..MaxLen, xs \in XSeeds}

\* the dropout masks of a call: no key position dropped, the first, or all
DropSets == {{}, {1}, 1..MaxLen}

\* whether the dropout layer of m changes the attention weights
DropoutActive(m) == m.training /\ m.dropout # R(0)

\* a forward that clears the bias of to_out in place once it has used it
ForwardClearingBias(batches) ==
    /\ mod.status = "ready"
    /\ \E x \in Inputs(mod.cfg.dim, batches), return_vgrid \in BOOLEAN, drop \in DropSets :
          /\ DropoutActive(mod) \/ drop = {}
          /\ call' = forward(mod, x, return_vgrid, drop)
    /\ mod' = [mod EXCEPT !.to_out.bias = [c \in 1..Len(@) |-> R(0)]]
    /\ UNCHANGED <<gs, ng>>

\* module(x, return_vgrid) on an input of one of the batch sizes: forward
\* reads the module and assigns nothing to it
Forward(batches) ==
    /\ mod.status = "ready"
    /\ \E x \in Inputs(mod.cfg.dim, batches), return_vgrid \in BOOLEAN, drop \in DropSets :
          /\ DropoutActive(mod) \/ drop = {}
          /\ call' = forward(mod, x, return_vgrid, drop)
    /\ mod' = mod
    /\ UNCHANGED <<gs, ng>>

\* the record of the first call of the module's life, when it completed with
\* the dropout layer inactive
Remember ==
    ref' = IF ref.status = "none"
           THEN IF call.status = "none" /\ call'.status = "ok" /\ ~DropoutActive(mod)
                THEN [status |-> "ok", x |-> call'.x, out |-> call'.out,
                      return_vgrid |-> call'.return_vgrid]
                ELSE [status |-> "void"]
           ELSE ref

\* DeformableAttention1D(**cfg), for a configuration of the given set
Construct(cfgs) ==
    /\ mod.status = "none"
    /\ \E cfg \in cfgs, seed \in Seeds : mod' = DeformableAttention1D_init(cfg, seed)
    /\ UNCHANGED <<gs, ng, call, ref>>

\* nn.Module.train(mode), and eval() = train(False), inherited by the module
SetTraining ==
    /\ mod.status = "ready"
    /\ \E mode \in BOOLEAN : mode # mod.training /\ mod' = [mod EXCEPT !.training = mode]
    /\ UNCHANGED <<gs, ng, call>>

InitModule ==
    /\ gs = NoCall
    /\ ng = NoCall
    /\ mod = [status |-> "none"]
    /\ call = NoCall
    /\ ref = NoCall

\* a module is constructed, switched between train() and eval(), and called once
Next ==
    \/ Construct(Configs)
    \/ call.status = "none" /\ SetTraining /\ UNCHANGED ref
    \/ call.status = "none" /\ Forward(1..MaxBatch) /\ UNCHANGED ref

Spec == InitModule /\ [][Next]_vars

\* the configurations of the modules that are called repeatedly
ConfigsCalls ==
    {cfg \in Configs : /\ cfg.dim_head = 1 /\ cfg.heads = 4 /\ cfg.offset_groups = <<2>>
                       /\ cfg.downsample_factor = 1 /\ cfg.offset_kernel_size = 3}

\* a module is constructed, switched between train() and eval() and called on
\* unbatched-size inputs any number of times, in any order
NextCalls ==
    \/ Construct(ConfigsCalls)
    \/ SetTraining /\ UNCHANGED ref
    \/ Forward({1}) /\ Remember

SpecCalls == InitModule /\ [][NextCalls]_vars

---------------------------------------------------------------------------
(* The claims about grid_sample_1d, under SpecSample.                      *)

\* linear interpolation of the row f (length n) at the normalised position x:
\* between the two indices adjacent to the coordinate x maps to on the length
\* axis, weighted by linear distance, an index outside the row counting as 0
LinearInterp(f, x) ==
    LET n  == Len(f)
        il == Unnormalize(x, n)
        l0 == RFloor(il)
        w1 == RSub(il, R(l0))
        at(l) == IF l >= 0 /\ l < n THEN f[l + 1] ELSE R(0)
    IN  RAdd(RMul(at(l0), RSub(R(1), w1)), RMul(at(l0 + 1), w1))

\* C2: grid_sample_1d returns, for each position x, the linear interpolation
\* between the two samples adjacent to x along the length axis.
C2_InterpolatesAlongLength ==
    gs.status = "ok" =>
        \A r \in 1..Len(gs.out) : \A c \in 1..Len(gs.out[r]) :
            \A m \in 1..Len(gs.grid[r]) :
                gs.out[r][c][m] = LinearInterp(gs.feats[r][c], gs.grid[r][m])

\* C3, as stated: every position x <= -1 or x >= 1 yields the zero feature vector.
C3_ZeroAtOrBeyondOne ==
    gs.status = "ok" =>
        \A r \in 1..Len(gs.out) : \A c \in 1..Len(gs.out[r]) :
            \A m \in 1..Len(gs.grid[r]) :
                RLe(R(1), RAbs(gs.grid[r][m])) => gs.out[r][c][m] = R(0)

\* C3, amended: every position x <= -2 or x >= 2 yields the zero feature
\* vector, whatever the features: no clamping to an edge sample, no wrap-around.
C3_ZeroAtOrBeyondTwo ==
    gs.status = "ok" =>
        \A r \in 1..Len(gs.out) : \A c \in 1..Len(gs.out[r]) :
            \A m \in 1..Len(gs.grid[r]) :
                RLe(R(2), RAbs(gs.grid[r][m])) => gs.out[r][c][m] = R(0)

\* a call sampled a non-zero feature row at the position 2 exactly and at a
\* position inside (-1, 1), out of order, and only the latter gave a non-zero value
C3_Witness ==
    /\ gs.status = "ok"
    /\ gs.grid[1][1] = R(2)
    /\ gs.grid[1][2] = Rat(-1, 2)
    /\ Len(gs.feats[1][1]) = MaxLen
    /\ gs.out[1][1][1] = R(0)
    /\ gs.out[1][1][2] # R(0)

---------------------------------------------------------------------------
(* The claims about normalize_grid, under SpecNorm.                        *)

\* C4, as stated: a position vector of length 1 holding the base position 0
\* is normalised to 0.
C4_LengthOneGivesZero ==
    ng.status = "ok" =>
        \A r \in 1..Len(ng.arange) :
            (Len(ng.arange[r]) = 1 /\ ng.arange[r][1] = R(0)) => ng.out[r][1] = R(0)

\* C4, amended: a position vector of length 1 holding the base position 0 is
\* normalised to -1 (the divisor is max(n - 1, 1) = 1, so nothing is divided
\* by zero), and a deformed position p of a length-1 grid to 2p - 1.
C4_LengthOneGivesMinusOne ==
    ng.status = "ok" =>
        \A r \in 1..Len(ng.arange) :
            Len(ng.arange[r]) = 1 =>
                /\ Len(ng.out[r]) = 1
                /\ ng.out[r][1] = RSub(RMul(R(2), ng.arange[r][1]), R(1))
                /\ ng.arange[r][1] = R(0) => ng.out[r][1] = R(-1)

\* normalize_grid returned for the length-1 vector arange(1)
C4_Witness ==
    /\ ng.status = "ok"
    /\ ng.arange = << <<R(0)>> >>
    /\ ng.out = << <<R(-1)>> >>

\* C7: for a position vector of length N > 1, the value 0 is normalised to -1,
\* the value N - 1 to +1, and every value p to 2p/(N - 1) - 1, with N the
\* length of the vector (the last axis) also when the positions are deformed.
C7_NormalizationEndpoints ==
    ng.status = "ok" =>
        \A r \in 1..Len(ng.arange) :
            LET N == Len(ng.arange[r])
            IN  N > 1 =>
                  \A i \in 1..N :
                     LET p == ng.arange[r][i]
                     IN  /\ p = R(0) => ng.out[r][i] = R(-1)
                         /\ p = R(N - 1) => ng.out[r][i] = R(1)
                         /\ RMul(RAdd(ng.out[r][i], R(1)), R(N - 1)) = RMul(R(2), p)

\* normalize_grid returned for a two-row deformed grid of length 3 whose first
\* row holds the undeformed positions 0 and N - 1 and whose second row is
\* shifted by a half
C7_Witness ==
    /\ ng.status = "ok"
    /\ Len(ng.arange) = 2
    /\ ng.arange[1] = <<R(0), R(1), R(2)>>
    /\ ng.arange[2][1] = Rat(1, 2)
    /\ ng.out[1] = <<R(-1), R(0), R(1)>>
    /\ ng.out[2][1] = Rat(-1, 2)

---------------------------------------------------------------------------
(* The claims about the constructor and forward, under Spec.               *)

\* C6: construction is rejected, before any sub-module is built and with no
\* forward call possible, exactly when heads is not a multiple of
\* offset_groups (heads itself when offset_groups is not given) or
\* offset_kernel_size - downsample_factor is odd, a negative odd difference
\* included; it is accepted when both constraints hold.
C6_RejectsInvalidConfigs ==
    mod.status # "none" =>
        LET groups == IF mod.cfg.offset_groups = <<>> THEN mod.cfg.heads
                      ELSE mod.cfg.offset_groups[1]
            diff   == mod.cfg.offset_kernel_size - mod.cfg.downsample_factor
            valid  == /\ \E q \in 1..mod.cfg.heads : q * groups = mod.cfg.heads
                      /\ \E q \in (-MaxFactor)..MaxKernel : 2 * q = diff
        IN  /\ valid => mod.status = "ready" /\ mod.built = SubModules
            /\ ~valid => /\ mod.status = "error"
                         /\ mod.error = "AssertionError"
                         /\ mod.built = <<>>
                         /\ call.status = "none"

\* a configuration whose kernel is smaller than the stride by an odd number
\* was rejected with nothing built
C6_Witness ==
    /\ mod.status = "error"
    /\ mod.cfg.offset_kernel_size - mod.cfg.downsample_factor = -1
    /\ mod.cfg.offset_groups = <<1>>
    /\ mod.built = <<>>
    /\ call.status = "none"

\* C1: for every configuration the constructor accepts and every input of
\* shape (batch, length, dim), forward completes and returns a tensor of the
\* shape of the input.
C1_OutputShapeEqualsInput ==
    call.status # "none" =>
        /\ call.status = "ok"
        /\ Len(call.out) = Len(call.x)
        /\ \A b \in 1..Len(call.x) :
              /\ Len(call.out[b]) = Len(call.x[b])
              /\ \A i \in 1..Len(call.x[b]) : Len(call.out[b][i]) = Len(call.x[b][i])

\* C5, as stated: the offset field has ceil(L / downsample_factor) positions
\* per (batch, group), on the calls that complete.
C5_OffsetLengthIsCeil ==
    call.status = "ok" =>
        \A r \in 1..Len(call.offsets) :
            Len(call.offsets[r]) =
                (Len(call.x[1]) + mod.downsample_factor - 1) \div mod.downsample_factor

\* C5, amended: on every call that completes, the offset field has one row
\* per (batch, group) and floor(L / downsample_factor) positions per row, at
\* least one, and this is also the number of sampled key/value positions and
\* the second dimension of the grid returned with return_vgrid.
C5_OffsetLengthIsFloor ==
    call.status = "ok" =>
        /\ Len(call.offsets) = Len(call.x) * mod.offset_groups
        /\ \A r \in 1..Len(call.offsets) :
              /\ Len(call.offsets[r]) = Len(call.x[1]) \div mod.downsample_factor
              /\ Len(call.offsets[r]) >= 1
        /\ \A b \in 1..Len(call.x) :
              /\ Len(call.kv_feats[b]) = Len(call.x[1]) \div mod.downsample_factor
              /\ \A h \in 1..mod.heads :
                    Len(call.kh[b][h]) = Len(call.x[1]) \div mod.downsample_factor
        /\ Len(call.returned) = IF call.return_vgrid THEN 2 ELSE 1
        /\ call.return_vgrid =>
              /\ Len(call.returned[2]) = Len(call.x) * mod.offset_groups
              /\ \A r \in 1..Len(call.returned[2]) :
                    Len(call.returned[2][r]) = Len(call.x[1]) \div mod.downsample_factor

\* a call on an input of length 4 with downsample factor 3 completed and
\* returned a grid with one position per row
C5_Witness ==
    /\ call.status = "ok"
    /\ Len(call.x[1]) = 4
    /\ mod.downsample_factor = 3
    /\ call.return_vgrid
    /\ Len(call.returned[2][1]) = 1

\* the terms <<e, c, tag>> of the set P, those of one exponent added up
ExpCollect(P) ==
    {term \in {<<e, RSum([p \in P |-> p[2]], {p \in P : p[1] = e})>> : e \in {p[1] : p \in P}} :
        term[2] # R(0)}

\* the sum of the sums of exponentials of the sequence ws
ExpAddAll(ws) ==
    ExpCollect({<<term[1], term[2], j>> : <<j, term>> \in
                   UNION {{j} \X ws[j] : j \in 1..Len(ws)}})

\* the product of two sums of exponentials
ExpMul(S, T) ==
    ExpCollect({<<RAdd(pair[1][1], pair[2][1]), RMul(pair[1][2], pair[2][2]), pair>> :
                   pair \in S \X T})

\* every coefficient of the sum of exponentials S is positive
ExpPositive(S) == \A term \in S : RLt(R(0), term[2])

\* what dropout with probability p makes of a kept weight with numerator num
Kept(num, p) == {<<term[1], RDiv(term[2], RSub(R(1), p))>> : term \in num}

\* the softmax weights of one row: positive, summing to 1, and equal to
\* exp(biased[j]) / sum over k of exp(biased[k]) for the row before the
\* subtraction of its maximum
SoftmaxRowNormalized(weights, biased) ==
    /\ \A j \in 1..Len(weights) :
          /\ weights[j].num # {} /\ ExpPositive(weights[j].num)
          /\ weights[j].den # {} /\ ExpPositive(weights[j].den)
          /\ ExpMul({<<biased[j], R(1)>>}, weights[j].den)
               = ExpMul(weights[j].num,
                        ExpAddAll([k \in 1..Len(biased) |-> {<<biased[k], R(1)>>}]))
    /\ \A j \in 1..Len(weights) :
          ExpAddAll([k \in 1..Len(weights) |-> weights[k].num]) = weights[j].den

\* C8, as stated: in every forward call the attention weights that multiply
\* the values sum to 1 over the sampled key positions.
C8_WeightsSumToOne ==
    call.status = "ok" =>
        \A b \in 1..Len(call.attn) : \A h \in 1..Len(call.attn[b]) :
            \A i \in 1..Len(call.attn[b][h]) : \A j \in 1..Len(call.attn[b][h][i]) :
                ExpAddAll([k \in 1..Len(call.attn[b][h][i]) |-> call.attn[b][h][i][k].num])
                    = call.attn[b][h][i][j].den

\* C8, amended: for every (batch, head, query position) the softmax weights
\* over the sampled key positions are positive and sum to 1, they are not
\* changed by the subtraction of the per-row maximum, after which every row
\* of the similarity matrix has maximum exactly 0; the weights that multiply
\* the values are these weights when dropout is inactive (p = 0 or eval
\* mode), and otherwise each is 0 or the softmax weight divided by 1 - p,
\* so non-negative.
C8_AttentionNormalized ==
    call.status = "ok" =>
        \A b \in 1..Len(call.x) : \A h \in 1..mod.heads : \A i \in 1..Len(call.x[b]) :
            /\ SoftmaxRowNormalized(call.softmax[b][h][i], call.sim_biased[b][h][i])
            /\ \E j \in 1..Len(call.sim[b][h][i]) : call.sim[b][h][i][j] = R(0)
            /\ \A j \in 1..Len(call.sim[b][h][i]) : RLe(call.sim[b][h][i][j], R(0))
            /\ ~DropoutActive(mod) => call.attn[b][h][i] = call.softmax[b][h][i]
            /\ DropoutActive(mod) =>
                  \A j \in 1..Len(call.attn[b][h][i]) :
                     /\ call.attn[b][h][i][j].den = call.softmax[b][h][i][j].den
                     /\ call.attn[b][h][i][j].num
                           \in {{}, Kept(call.softmax[b][h][i][j].num, mod.dropout)}

\* a module with dropout 1/2, switched to eval mode, completed a call in which
\* a query attends two key positions with different weights
C8_Witness ==
    /\ call.status = "ok"
    /\ mod.dropout = Rat(1, 2)
    /\ ~mod.training
    /\ Len(call.x[1]) >= 2
    /\ Len(call.attn[1][1][1]) >= 2
    /\ call.attn[1][1][1][1].num # call.attn[1][1][1][2].num
    /\ call.sim_biased[1][1][1] # call.sim[1][1][1]

\* the offset group that owns head h (1-based), as a 0-based index, and the
\* 1-based place of h among the heads of its group
OwnerGroup(h, heads, groups) == (h - 1) \div (heads \div groups)
PlaceInGroup(h, heads, groups) == ((h - 1) % (heads \div groups)) + 1

\* C9: the bias has shape (batch, heads, N, M), and its entry for batch b,
\* head h, query i, key j is computed from the signed-log distance between
\* query position i and key position j of the grid row of batch b and of the
\* group that owns h, the group h div (heads / offset_groups): the group whose
\* channels of the queries hold the channels of head h.
C9_BiasFollowsOwningGroup ==
    call.status = "ok" =>
        /\ Len(call.rel_pos_bias) = Len(call.x)
        /\ \A b \in 1..Len(call.x) :
              /\ Len(call.rel_pos_bias[b]) = mod.heads
              /\ \A h \in 1..mod.heads :
                    /\ Len(call.rel_pos_bias[b][h]) = Len(call.seq_scaled)
                    /\ \A i \in 1..Len(call.seq_scaled) :
                          /\ Len(call.rel_pos_bias[b][h][i]) = Len(call.vgrid_scaled[1])
                          /\ \A j \in 1..Len(call.vgrid_scaled[1]) :
                                call.rel_pos_bias[b][h][i][j] =
                                    Mlp(mod.rel_pos_bias.mlp, 1,
                                        <<SignedLog(RSub(call.seq_scaled[i],
                                            call.vgrid_scaled
                                                [(b - 1) * mod.offset_groups
                                                 + OwnerGroup(h, mod.heads, mod.offset_groups) + 1]
                                                [j]))>>)
                                       [PlaceInGroup(h, mod.heads, mod.offset_groups)]
                          /\ \A d \in 1..Len(call.qh[b][h][i]) :
                                call.qh[b][h][i][d] =
                                    RMul(call.grouped_feats
                                            [(b - 1) * mod.offset_groups
                                             + OwnerGroup(h, mod.heads, mod.offset_groups) + 1]
                                            [(PlaceInGroup(h, mod.heads, mod.offset_groups) - 1)
                                                * Len(call.qh[b][h][i]) + d]
                                            [i],
                                         mod.scale)

\* a module of four heads in two groups completed a call on a batch of two
\* whose groups deformed their grids differently, and the bias differs
\* between two heads of one group and between the heads of different groups
C9_Witness ==
    /\ call.status = "ok"
    /\ mod.heads = 4
    /\ mod.offset_groups = 2
    /\ Len(call.x) = 2
    /\ call.vgrid_scaled[1] # call.vgrid_scaled[2]
    /\ call.vgrid_scaled[3] # call.vgrid_scaled[4]
    /\ call.vgrid_scaled[1] # call.vgrid_scaled[3]
    /\ call.rel_pos_bias[2][1] # call.rel_pos_bias[2][2]
    /\ call.rel_pos_bias[2][1] # call.rel_pos_bias[2][3]
    /\ call.rel_pos_bias[2][2] # call.rel_pos_bias[2][3]

---------------------------------------------------------------------------
(* The claim about repeated calls, under SpecCalls.                        *)

=============================================================================
